---- MODULE Spec2Model ----
(***************************************************************************)
(* DontForget (src/main.py): a FastAPI service with three endpoints behind *)
(* a shared-secret header.  /remember tags a note with one call to the     *)
(* reasoning engine and INSERTs it into the FTS5 table `memory`; /remind   *)
(* runs a ReAct loop in which the engine may call the tool execute_sql,    *)
(* which refuses text holding a mutation keyword and otherwise hands the   *)
(* text to sqlite3.                                                        *)
(*                                                                         *)
(* A Python str is modelled as a sequence of one-character strings, so     *)
(* that upper(), `in`, concatenation and json.dumps are computed and not   *)
(* assumed.  A value that is not a str (None, an int, a list) is a         *)
(* one-element sequence holding a marker longer than one character.        *)
(***************************************************************************)
EXTENDS Integers, Sequences, FiniteSets, TLC

\* ------------------------------------------------------------------ bounds
\* most notes /remember may add (the table itself is unbounded)
MaxNotes == 1
\* most engine round trips of one /remind run (the loop itself has no cap)
MaxEngineCalls == 2

\* --------------------------------------------------------- text constants
\* ReadOnlyError is the text 'Error: Read-only access allowed.'
ReadOnlyError ==
    <<"E","r","r","o","r",":"," ","R","e","a","d","-","o","n","l","y"," ","a","c","c","e","s","s"," ","a","l","l","o","w","e","d",".">>
\* NoResults is the text 'No results found.'
NoResults ==
    <<"N","o"," ","r","e","s","u","l","t","s"," ","f","o","u","n","d",".">>
\* SqlErrorPrefix is the text 'SQL Error: '
SqlErrorPrefix ==
    <<"S","Q","L"," ","E","r","r","o","r",":"," ">>
\* SyntaxErrorMsg is the text 'syntax error'
SyntaxErrorMsg ==
    <<"s","y","n","t","a","x"," ","e","r","r","o","r">>
\* NoUpperMsg is the text "'int' object has no attribute 'upper'"
NoUpperMsg ==
    <<"'","i","n","t","'"," ","o","b","j","e","c","t"," ","h","a","s"," ","n","o"," ","a","t","t","r","i","b","u","t","e"," ","'","u","p","p","e","r","'">>
\* General is the text 'general'
General ==
    <<"g","e","n","e","r","a","l">>
\* ToolName is the text 'execute_sql'
ToolName ==
    <<"e","x","e","c","u","t","e","_","s","q","l">>
\* KwDELETE is the text 'DELETE'
KwDELETE ==
    <<"D","E","L","E","T","E">>
\* KwDROP is the text 'DROP'
KwDROP ==
    <<"D","R","O","P">>
\* KwUPDATE is the text 'UPDATE'
KwUPDATE ==
    <<"U","P","D","A","T","E">>
\* KwINSERT is the text 'INSERT'
KwINSERT ==
    <<"I","N","S","E","R","T">>
\* KwSELECT is the text 'SELECT'
KwSELECT ==
    <<"S","E","L","E","C","T">>
\* KwREPLACE is the text 'REPLACE'
KwREPLACE ==
    <<"R","E","P","L","A","C","E">>
\* KwWITH is the text 'WITH'
KwWITH ==
    <<"W","I","T","H">>
\* KwMATCH is the text ' MATCH '
KwMATCH ==
    <<" ","M","A","T","C","H"," ">>
\* QSelectAll is the text 'SELECT * FROM memory'
QSelectAll ==
    <<"S","E","L","E","C","T"," ","*"," ","F","R","O","M"," ","m","e","m","o","r","y">>
\* QMatch is the text "select * from memory where memory match 'dentist'"
QMatch ==
    <<"s","e","l","e","c","t"," ","*"," ","f","r","o","m"," ","m","e","m","o","r","y"," ","w","h","e","r","e"," ","m","e","m","o","r","y"," ","m","a","t","c","h"," ","'","d","e","n","t","i","s","t","'">>
\* QTypo is the text 'SELEC * FROM memory'
QTypo ==
    <<"S","E","L","E","C"," ","*"," ","F","R","O","M"," ","m","e","m","o","r","y">>
\* QDelete is the text 'DeLeTe FROM memory'
QDelete ==
    <<"D","e","L","e","T","e"," ","F","R","O","M"," ","m","e","m","o","r","y">>
\* QLikeUpdate is the text "SELECT * FROM memory WHERE text LIKE '%update%'"
QLikeUpdate ==
    <<"S","E","L","E","C","T"," ","*"," ","F","R","O","M"," ","m","e","m","o","r","y"," ","W","H","E","R","E"," ","t","e","x","t"," ","L","I","K","E"," ","'","%","u","p","d","a","t","e","%","'">>
\* QReplace is the text "REPLACE INTO memory(rowid,text) VALUES(1,'')"
QReplace ==
    <<"R","E","P","L","A","C","E"," ","I","N","T","O"," ","m","e","m","o","r","y","(","r","o","w","i","d",",","t","e","x","t",")"," ","V","A","L","U","E","S","(","1",",","'","'",")">>
\* QWithReplace is the text "WITH t AS (SELECT 1) REPLACE INTO memory(rowid,text) VALUES(1,'')"
QWithReplace ==
    <<"W","I","T","H"," ","t"," ","A","S"," ","(","S","E","L","E","C","T"," ","1",")"," ","R","E","P","L","A","C","E"," ","I","N","T","O"," ","m","e","m","o","r","y","(","r","o","w","i","d",",","t","e","x","t",")"," ","V","A","L","U","E","S","(","1",",","'","'",")">>
\* TextDentist is the text 'dentist'
TextDentist ==
    <<"d","e","n","t","i","s","t">>
\* TagsHealth is the text 'health,appointment'
TagsHealth ==
    <<"h","e","a","l","t","h",",","a","p","p","o","i","n","t","m","e","n","t">>
\* AnswerText is the text 'You have a dentist appointment.'
AnswerText ==
    <<"Y","o","u"," ","h","a","v","e"," ","a"," ","d","e","n","t","i","s","t"," ","a","p","p","o","i","n","t","m","e","n","t",".">>
\* ThinkingText is the text 'Let me look.'
ThinkingText ==
    <<"L","e","t"," ","m","e"," ","l","o","o","k",".">>
\* TsPrefix is the text '2026-11-02 10:00:0'
TsPrefix ==
    <<"2","0","2","6","-","1","1","-","0","2"," ","1","0",":","0","0",":","0">>
\* OtherToolName is the text 'run_query'
OtherToolName ==
    <<"r","u","n","_","q","u","e","r","y">>
\* Question is the text 'What did I say about the dentist?'
Question ==
    <<"W","h","a","t"," ","d","i","d"," ","I"," ","s","a","y"," ","a","b","o","u","t"," ","t","h","e"," ","d","e","n","t","i","s","t","?">>
\* RetrievalFailed is the text 'Memory retrieval failed.'
RetrievalFailed ==
    <<"M","e","m","o","r","y"," ","r","e","t","r","i","e","v","a","l"," ","f","a","i","l","e","d",".">>
\* InvalidKeyDetail is the text 'Invalid API Key. You are not the owner.'
InvalidKeyDetail ==
    <<"I","n","v","a","l","i","d"," ","A","P","I"," ","K","e","y","."," ","Y","o","u"," ","a","r","e"," ","n","o","t"," ","t","h","e"," ","o","w","n","e","r",".">>
\* ClassifierError is the text 'classification failed'
ClassifierError ==
    <<"c","l","a","s","s","i","f","i","c","a","t","i","o","n"," ","f","a","i","l","e","d">>
\* Saved is the text 'saved'
Saved ==
    <<"s","a","v","e","d">>
\* KeyErrorMsg is the text "'sql_query'"
KeyErrorMsg ==
    <<"'","s","q","l","_","q","u","e","r","y","'">>
\* IndexErrorMsg is the text 'list index out of range'
IndexErrorMsg ==
    <<"l","i","s","t"," ","i","n","d","e","x"," ","o","u","t"," ","o","f"," ","r","a","n","g","e">>
\* EngineErrorMsg is the text '503 UNAVAILABLE'
EngineErrorMsg ==
    <<"5","0","3"," ","U","N","A","V","A","I","L","A","B","L","E">>

\* ------------------------------------------------------- non-str values
\* Python None / SQL NULL
None == <<"None">>
\* the int 123, an argument of the wrong type
Int123 == <<"int:123">>
\* a Python list, a JSON array the classifier may put under "tags"
ListValue == <<"list">>

LowerLetters ==
    <<"a","b","c","d","e","f","g","h","i","j","k","l","m","n","o","p","q","r","s","t","u","v","w","x","y","z">>
UpperLetters ==
    <<"A","B","C","D","E","F","G","H","I","J","K","L","M","N","O","P","Q","R","S","T","U","V","W","X","Y","Z">>
Digits ==
    <<"0","1","2","3","4","5","6","7","8","9">>

Range(s) == { s[i] : i \in DOMAIN s }

\* isinstance(v, str)
IsStr(v) == \A i \in DOMAIN v : v[i] \notin {"None", "int:123", "list"}

\* str.upper() and str.lower() as tables over the letters
ToUpper ==
    [c \in Range(LowerLetters) |->
        UpperLetters[CHOOSE i \in DOMAIN LowerLetters : LowerLetters[i] = c]]
ToLower ==
    [c \in Range(UpperLetters) |->
        LowerLetters[CHOOSE i \in DOMAIN UpperLetters : UpperLetters[i] = c]]

\* str.upper() on one character
UpperChar(c) == IF c \in DOMAIN ToUpper THEN ToUpper[c] ELSE c

\* str.lower() on one character
LowerChar(c) == IF c \in DOMAIN ToLower THEN ToLower[c] ELSE c

\* str.upper()
Upper(s) == [ i \in DOMAIN s |-> UpperChar(s[i]) ]

\* str.lower()
Lower(s) == [ i \in DOMAIN s |-> LowerChar(s[i]) ]

\* Python `t in s` on two strs
Contains(s, t) ==
    \E i \in 0..(Len(s) - Len(t)) : SubSeq(s, i + 1, i + Len(t)) = t

\* str.startswith
StartsWith(s, t) == Len(s) >= Len(t) /\ SubSeq(s, 1, Len(t)) = t

\* the text between the first and the last single quote of s (a SQL literal)
Quoted(s) ==
    LET q == { i \in DOMAIN s : s[i] = "'" }
    IN  IF Cardinality(q) < 2 THEN <<>>
        ELSE LET a == CHOOSE i \in q : \A j \in q : i <= j
                 b == CHOOSE i \in q : \A j \in q : i >= j
             IN  SubSeq(s, a + 1, b - 1)

IsAlnum(c) == c \in Range(LowerLetters) \cup Range(UpperLetters) \cup Range(Digits)

\* the FTS5 unicode61 tokenizer: maximal runs of letters and digits, folded
\* to lower case
RECURSIVE TokensFrom(_, _, _)
TokensFrom(s, i, cur) ==
    IF i > Len(s)
    THEN IF cur = <<>> THEN {} ELSE {cur}
    ELSE IF IsAlnum(s[i])
         THEN TokensFrom(s, i + 1, Append(cur, LowerChar(s[i])))
         ELSE (IF cur = <<>> THEN {} ELSE {cur}) \cup TokensFrom(s, i + 1, <<>>)

Tokens(v) == IF IsStr(v) THEN TokensFrom(v, 1, <<>>) ELSE {}

\* ------------------------------------------------------------ the table
\* init_db: fts5(text, tags, timestamp, UNINDEXED).  The comma before
\* UNINDEXED makes it a fourth column of that name, not an option of
\* timestamp.
Columns == <<"text", "tags", "timestamp", "UNINDEXED">>

\* the row of INSERT INTO memory (text, tags, timestamp) VALUES (?, ?, ?)
Row(text, tags, ts) ==
    [text |-> text, tags |-> tags, timestamp |-> ts, UNINDEXED |-> None]

\* sqlite3 binds str, None and numbers; a list raises
Bindable(v) == v # ListValue

\* MATCH 'term' on the table: term is a token of an indexed column
Matches(row, term) ==
    \E c \in {"text", "tags", "timestamp"} : Lower(term) \in Tokens(row[c])

\* sqlite3 module, statement.c: is_dml is decided by the first keyword
IsDml(sql) ==
    LET up == Upper(sql)
    IN  \E kw \in {KwINSERT, KwUPDATE, KwDELETE, KwREPLACE} : StartsWith(up, kw)

\* what SQLite makes of the statement text
StatementKind(sql) ==
    LET up == Upper(sql)
    IN  IF StartsWith(up, KwSELECT \o <<" ">>) THEN "select"
        ELSE IF StartsWith(up, KwREPLACE \o <<" ">>) THEN "replace"
        ELSE IF StartsWith(up, KwWITH \o <<" ">>) /\ Contains(up, <<")", " ">> \o KwREPLACE \o <<" ">>)
             THEN "replace"
        ELSE "error"

\* REPLACE INTO memory(rowid,text) VALUES(1,'..'): row 1 is overwritten (or
\* created) with the literal as text and NULL in the other columns
ReplaceRow1(db, sql) ==
    LET new == [text |-> Quoted(sql), tags |-> None, timestamp |-> None, UNINDEXED |-> None]
    IN  IF Len(db) = 0 THEN <<new>> ELSE [db EXCEPT ![1] = new]

\* conn.execute(sql) followed by cursor.fetchall() on a fresh connection with
\* the default isolation level: a statement whose first keyword is a DML
\* keyword runs inside an implicit BEGIN, any other statement autocommits.
\* ok = FALSE is a raised sqlite3 exception.
SqliteExecute(db, sql) ==
    LET kind == StatementKind(sql)
    IN  CASE kind = "select" ->
               [ok |-> TRUE, msg |-> <<>>, inTxn |-> FALSE, db |-> db,
                rows |-> IF Contains(Upper(sql), KwMATCH)
                         THEN SelectSeq(db, LAMBDA row : Matches(row, Quoted(sql)))
                         ELSE db]
          [] kind = "replace" ->
               [ok |-> TRUE, msg |-> <<>>, inTxn |-> IsDml(sql),
                db |-> ReplaceRow1(db, sql), rows |-> <<>>]
          [] OTHER ->
               [ok |-> FALSE, msg |-> SyntaxErrorMsg, inTxn |-> FALSE, db |-> db,
                rows |-> <<>>]

\* conn.close(): a pending transaction is rolled back
SqliteClose(before, exec) == IF exec.inTxn THEN before ELSE exec.db

\* ------------------------------------------------------------ json.dumps
JsonEscapeChar(c) ==
    IF c = "\"" THEN <<"\\", "\"">> ELSE IF c = "\\" THEN <<"\\", "\\">> ELSE <<c>>

RECURSIVE JsonEscape(_)
JsonEscape(s) ==
    IF s = <<>> THEN <<>> ELSE JsonEscapeChar(Head(s)) \o JsonEscape(Tail(s))

JsonValue(v) ==
    IF v = None THEN <<"n","u","l","l">>
    ELSE <<"\"">> \o JsonEscape(v) \o <<"\"">>

Str(name) ==
    CASE name = "text" -> <<"t","e","x","t">>
      [] name = "tags" -> <<"t","a","g","s">>
      [] name = "timestamp" -> <<"t","i","m","e","s","t","a","m","p">>
      [] name = "UNINDEXED" -> <<"U","N","I","N","D","E","X","E","D">>

RECURSIVE JsonMembers(_, _)
JsonMembers(row, i) ==
    IF i > Len(Columns) THEN <<>>
    ELSE (IF i > 1 THEN <<",", " ">> ELSE <<>>)
         \o <<"\"">> \o Str(Columns[i]) \o <<"\"", ":", " ">> \o JsonValue(row[Columns[i]])
         \o JsonMembers(row, i + 1)

RECURSIVE JsonItems(_, _)
JsonItems(rows, i) ==
    IF i > Len(rows) THEN <<>>
    ELSE (IF i > 1 THEN <<",", " ">> ELSE <<>>)
         \o <<"{">> \o JsonMembers(rows[i], 1) \o <<"}">>
         \o JsonItems(rows, i + 1)

\* json.dumps(rows, default=str) of a list of dict(row)
JsonDumps(rows) == <<"[">> \o JsonItems(rows, 1) \o <<"]">>

\* ----------------------------------------------------------- execute_sql
\* the keyword scan without the upper(): only upper-case keywords are found
HasMutationKeyword_CaseSensitive(sql_query) ==
    LET text == sql_query
    IN  \E x \in {KwDELETE, KwDROP, KwUPDATE, KwINSERT} : Contains(text, x)

\* any(x in sql_query.upper() for x in ["DELETE", "DROP", "UPDATE", "INSERT"])
HasMutationKeyword(sql_query) ==
    LET text == Upper(sql_query)
    IN  \E x \in {KwDELETE, KwDROP, KwUPDATE, KwINSERT} : Contains(text, x)

\* the try block without the `if not rows` of line 66: an empty result is
\* serialized like any other
TryBody_NoSentinel(db, sql_query) ==
    IF ~IsStr(sql_query)
    THEN [raises |-> TRUE, exc |-> "AttributeError", value |-> NoUpperMsg, db |-> db,
          opened |-> FALSE, closed |-> FALSE]
    ELSE IF HasMutationKeyword(sql_query)
    THEN [raises |-> FALSE, exc |-> "", value |-> ReadOnlyError, db |-> db,
          opened |-> FALSE, closed |-> FALSE]
    ELSE LET exec == SqliteExecute(db, sql_query)
         IN  IF ~exec.ok
             THEN [raises |-> TRUE, exc |-> "sqlite3.OperationalError", value |-> exec.msg,
                   db |-> db, opened |-> TRUE, closed |-> FALSE]
             ELSE [raises |-> FALSE, exc |-> "",
                   value |-> JsonDumps(exec.rows),
                   db |-> SqliteClose(db, exec), opened |-> TRUE, closed |-> TRUE]

\* the body of the try block on the table contents db: the value returned or
\* the exception raised, the table afterwards, whether sqlite3.connect ran and
\* whether the conn.close() of line 65 ran
TryBody(db, sql_query) ==
    IF ~IsStr(sql_query)
    THEN [raises |-> TRUE, exc |-> "AttributeError", value |-> NoUpperMsg, db |-> db,
          opened |-> FALSE, closed |-> FALSE]
    ELSE IF HasMutationKeyword(sql_query)
    THEN [raises |-> FALSE, exc |-> "", value |-> ReadOnlyError, db |-> db,
          opened |-> FALSE, closed |-> FALSE]
    ELSE LET exec == SqliteExecute(db, sql_query)
         IN  IF ~exec.ok
             THEN [raises |-> TRUE, exc |-> "sqlite3.OperationalError", value |-> exec.msg,
                   db |-> db, opened |-> TRUE, closed |-> FALSE]
             ELSE [raises |-> FALSE, exc |-> "",
                   value |-> IF exec.rows = <<>> THEN NoResults ELSE JsonDumps(exec.rows),
                   db |-> SqliteClose(db, exec), opened |-> TRUE, closed |-> TRUE]

\* an `except sqlite3.Error` in its place: other exceptions leave the function
Catches_SqliteOnly(exc) == exc = "sqlite3.OperationalError"

\* `except Exception`: every exception the body raises is caught
Catches(exc) == TRUE

\* execute_sql(sql_query): raised = TRUE is an exception leaving the function,
\* result is the returned text
execute_sql(db, sql_query) ==
    LET body == TryBody(db, sql_query)
    IN  IF ~body.raises
        THEN [raised |-> FALSE, result |-> body.value, db |-> body.db,
              opened |-> body.opened, closed |-> body.closed]
        ELSE IF Catches(body.exc)
        THEN [raised |-> FALSE, result |-> SqlErrorPrefix \o body.value, db |-> body.db,
              opened |-> body.opened, closed |-> body.closed]
        ELSE [raised |-> TRUE, result |-> None, db |-> body.db,
              opened |-> body.opened, closed |-> body.closed]

\* ------------------------------------------------------------- requests
\* the request slots: FastAPI runs each `def` endpoint on a worker thread of
\* its pool; `workers` below is how many of them the deployment has
Reqs == {1, 2}

\* SERVER_SECRET and the values the x-api-key header may carry
SERVER_SECRET == "s3cret"
MissingHeader == "<no header>"
Headers == {SERVER_SECRET, "wrong", MissingHeader}

\* request bodies: ThoughtRequest.text and QueryRequest.question are any str
Texts == {<<>>, TextDentist}
Questions == {Question}

\* Question2 is the text 'When is the dentist?'
Question2 ==
    <<"W","h","e","n"," ","i","s"," ","t","h","e"," ","d","e","n","t","i","s","t","?">>

\* the query arguments the engine may put in a tool invocation
Queries ==
    {QSelectAll, QMatch, QTypo, QDelete, QLikeUpdate, QReplace, QWithReplace, Int123}

\* ------------------------------------------------- reasoning-engine turns
NoArgs == <<>>
SqlArg(q) == [k \in {"sql_query"} |-> q]

TextPart(t) == [function_call |-> FALSE, name |-> None, args |-> NoArgs, text |-> t]
CallPart(name, args) == [function_call |-> TRUE, name |-> name, args |-> args, text |-> None]

\* response.candidates[0].content.parts of the turns send_message may return
EngineParts ==
    {<<TextPart(AnswerText)>>}
    \cup { <<CallPart(ToolName, SqlArg(q))>> : q \in Queries }
    \cup { <<TextPart(ThinkingText), CallPart(ToolName, SqlArg(QSelectAll))>>,
           <<CallPart(ToolName, SqlArg(QSelectAll)), CallPart(ToolName, SqlArg(QMatch))>>,
           <<CallPart(ToolName, NoArgs)>>,
           <<CallPart(OtherToolName, SqlArg(QSelectAll))>>,
           <<>> }

\* chat.send_message either raises or returns a turn
EngineTurns ==
    {[ok |-> FALSE, parts |-> <<>>]} \cup { [ok |-> TRUE, parts |-> p] : p \in EngineParts }

\* GenerateContentResponse.text: the text parts joined, None without any
RECURSIVE JoinText(_)
JoinText(parts) ==
    IF parts = <<>> THEN <<>>
    ELSE (IF Head(parts).function_call THEN <<>> ELSE Head(parts).text) \o JoinText(Tail(parts))

ResponseText(parts) ==
    IF \A i \in DOMAIN parts : parts[i].function_call THEN None ELSE JoinText(parts)

\* --------------------------------------------------- classifier responses
\* resp.text of the tagging call, as the JSON document json.loads reads
TagsObject(v) == [type |-> "object", members |-> [k \in {"tags"} |-> v]]

ClassifierDocs ==
    { [type |-> "invalid", members |-> <<>>],
      [type |-> "array", members |-> <<>>],
      [type |-> "object", members |-> <<>>] }
    \cup { TagsObject(v) : v \in {TagsHealth, <<>>, None, ListValue} }

ClassifierReplies ==
    {[ok |-> FALSE, doc |-> [type |-> "invalid", members |-> <<>>]]}
    \cup { [ok |-> TRUE, doc |-> d] : d \in ClassifierDocs }

\* the inputs of the two-worker deployment: two questions that tell the runs
\* apart, and one engine turn, note and classifier reply of each kind
ConcQuestions == {Question, Question2}
ConcTexts == {TextDentist}
ConcEngineTurns ==
    { [ok |-> FALSE, parts |-> <<>>],
      [ok |-> TRUE, parts |-> <<TextPart(AnswerText)>>],
      [ok |-> TRUE, parts |-> <<CallPart(ToolName, SqlArg(QSelectAll))>>],
      [ok |-> TRUE, parts |-> <<CallPart(ToolName, SqlArg(QTypo))>>] }
ConcClassifierReplies ==
    { [ok |-> FALSE, doc |-> [type |-> "invalid", members |-> <<>>]],
      [ok |-> TRUE, doc |-> TagsObject(TagsHealth)] }

\* json.loads(resp.text).get("tags", "general"); ok = FALSE is a raised
\* exception (JSONDecodeError, or AttributeError on a list)
ParseTags(doc) ==
    IF doc.type # "object" THEN [ok |-> FALSE, tags |-> None]
    ELSE [ok |-> TRUE,
          tags |-> IF "tags" \in DOMAIN doc.members THEN doc.members["tags"] ELSE General]

\* the second datetime.now() shows; no branch of the code reads the timestamp,
\* so one reading stands for all
Clock == {0}

\* datetime.now().strftime("%Y-%m-%d %H:%M:%S")
Timestamp(now) == TsPrefix \o <<Digits[now + 1]>>

\* ------------------------------------------------------------------ state
VARIABLES
    store,    \* the rows of table memory, in rowid order
    workers,  \* worker threads of the server: requests served at once
    req,      \* per request slot: the request in flight and its local variables
    acked     \* what the caller holds: the (text, tags) of every "saved" response

vars == <<store, workers, req, acked>>

Idle ==
    [endpoint |-> "none", pc |-> "idle", body |-> <<>>, chat |-> <<>>,
     response |-> <<>>, query |-> <<>>, result |-> <<>>, opened |-> FALSE,
     raised |-> FALSE, connOpen |-> FALSE, error |-> <<>>,
     engineCalls |-> 0, execCalls |-> 0,
     reply |-> [status |-> 0, body |-> <<>>, tags |-> None]]

Init ==
    /\ store = <<>>
    /\ workers = 1
    /\ req = [r \in Reqs |-> Idle]
    /\ acked = {}

Reply(status, body, tags) == [status |-> status, body |-> body, tags |-> tags]

\* verify_api_key: a missing header is FastAPI's 422, a wrong one the 401
verify_api_key(x_api_key) ==
    IF x_api_key = MissingHeader THEN 422
    ELSE IF x_api_key # SERVER_SECRET THEN 401
    ELSE 200

\* ----------------------------------------------------------------- actions
\* a new request is taken by the lowest free slot while a worker is free
Busy == { r \in Reqs : req[r].pc # "idle" }
Accepts(r) ==
    /\ Cardinality(Busy) < workers
    /\ r \notin Busy
    /\ \A s \in Reqs \ Busy : r <= s

\* a request to any endpoint whose header fails verify_api_key
Reject(r, endpoint, x_api_key) ==
    /\ Accepts(r)
    /\ verify_api_key(x_api_key) # 200
    /\ req' = [req EXCEPT ![r] = [Idle EXCEPT !.endpoint = endpoint, !.pc = "REJECTED",
                  !.reply = Reply(verify_api_key(x_api_key),
                                  IF x_api_key = MissingHeader THEN <<>> ELSE InvalidKeyDetail,
                                  None)]]
    /\ UNCHANGED <<store, workers, acked>>

\* GET /health
health(r, x_api_key) ==
    /\ Accepts(r)
    /\ verify_api_key(x_api_key) = 200
    /\ req' = [req EXCEPT ![r] = [Idle EXCEPT !.endpoint = "health", !.pc = "DONE",
                  !.reply = Reply(200, <<"o","n","l","i","n","e">>, None)]]
    /\ UNCHANGED <<store, workers, acked>>

InFlightRemember == Cardinality({ r \in Reqs : req[r].pc = "CLASSIFYING" })

\* POST /remember up to the generate_content call
remember(r, x_api_key, text) ==
    /\ Accepts(r)
    /\ verify_api_key(x_api_key) = 200
    /\ Len(store) + InFlightRemember < MaxNotes
    /\ req' = [req EXCEPT ![r] = [Idle EXCEPT !.endpoint = "remember",
                  !.pc = "CLASSIFYING", !.body = text, !.engineCalls = 1]]
    /\ UNCHANGED <<store, workers, acked>>

\* a remember that falls back to the tag "general" when classification fails
rememberSave_Fallback(r, resp, now) ==
    /\ req[r].pc = "CLASSIFYING"
    /\ LET parsed == ParseTags(resp.doc)
           tags == IF resp.ok /\ parsed.ok /\ Bindable(parsed.tags) THEN parsed.tags ELSE General
       IN  /\ store' = Append(store, Row(req[r].body, tags, Timestamp(now)))
           /\ acked' = acked \cup {[text |-> req[r].body, tags |-> tags]}
           /\ req' = [req EXCEPT ![r].pc = "DONE",
                                 ![r].response = resp,
                                 ![r].reply = Reply(200, Saved, tags)]
    /\ UNCHANGED workers

\* POST /remember from the return of generate_content to the response
rememberSave(r, resp, now) ==
    /\ req[r].pc = "CLASSIFYING"
    /\ LET parsed == ParseTags(resp.doc)
           tags == parsed.tags
           ts == Timestamp(now)
       IN  IF ~resp.ok \/ ~parsed.ok \/ ~Bindable(tags)
           THEN /\ req' = [req EXCEPT ![r].pc = "FAILED",
                                      ![r].response = resp,
                                      ![r].reply = Reply(500, ClassifierError, None)]
                /\ UNCHANGED <<store, acked>>
           ELSE /\ store' = Append(store, Row(req[r].body, tags, ts))
                /\ acked' = acked \cup {[text |-> req[r].body, tags |-> tags]}
                /\ req' = [req EXCEPT ![r].pc = "DONE",
                                      ![r].response = resp,
                                      ![r].reply = Reply(200, Saved, tags)]
    /\ UNCHANGED workers

\* the user turn, the model turn and the tool-response turn of a chat
UserTurn(question) == [role |-> "user", parts |-> <<TextPart(question)>>]
ModelTurn(parts) == [role |-> "model", parts |-> parts]
ToolTurn(name, result) ==
    [role |-> "tool", parts |-> <<[function_response |-> TRUE, name |-> name, response |-> result]>>]

\* a remind that keeps one chat object for the process instead of creating one
\* per request: a run joins the chat of a run in flight
remind_SharedChat(r, x_api_key, question) ==
    /\ Accepts(r)
    /\ verify_api_key(x_api_key) = 200
    /\ LET others == { s \in Reqs \ {r} : req[s].endpoint = "remind" }
           shared == IF others = {} THEN <<>> ELSE req[CHOOSE s \in others : TRUE].chat
       IN  req' = [req EXCEPT ![r] = [Idle EXCEPT !.endpoint = "remind",
                      !.pc = "AWAITING_RESPONSE", !.body = question,
                      !.chat = Append(shared, UserTurn(question)), !.engineCalls = 1]]
    /\ UNCHANGED <<store, workers, acked>>

\* POST /remind up to the first chat.send_message
remind(r, x_api_key, question) ==
    /\ Accepts(r)
    /\ verify_api_key(x_api_key) = 200
    /\ req' = [req EXCEPT ![r] = [Idle EXCEPT !.endpoint = "remind",
                  !.pc = "AWAITING_RESPONSE", !.body = question,
                  !.chat = <<UserTurn(question)>>, !.engineCalls = 1]]
    /\ UNCHANGED <<store, workers, acked>>

\* the test of the while loop: parts[0].function_call
FirstPartIsCall(parts) == parts[1].function_call

\* chat.send_message returns (or raises) and the while condition is tested
engineReturns(r, turn) ==
    /\ req[r].pc = "AWAITING_RESPONSE"
    /\ IF ~turn.ok \/ turn.parts = <<>>
       THEN req' = [req EXCEPT ![r].pc = "FAILED",
                               ![r].chat = IF turn.ok THEN Append(@, ModelTurn(turn.parts)) ELSE @,
                               ![r].response = turn.parts,
                               ![r].error = IF turn.ok THEN IndexErrorMsg ELSE EngineErrorMsg,
                               ![r].reply = Reply(500, RetrievalFailed, None)]
       ELSE IF FirstPartIsCall(turn.parts)
       THEN /\ req[r].engineCalls < MaxEngineCalls
            /\ req' = [req EXCEPT ![r].pc = "TOOL_REQUESTED",
                                  ![r].chat = Append(@, ModelTurn(turn.parts)),
                                  ![r].response = turn.parts]
       ELSE req' = [req EXCEPT ![r].pc = "DONE",
                               ![r].chat = Append(@, ModelTurn(turn.parts)),
                               ![r].response = turn.parts,
                               ![r].reply = Reply(200, ResponseText(turn.parts), None)]
    /\ UNCHANGED <<store, workers, acked>>

\* a remind that answers with str(e), as remember does
executeTool_LeakCause(r, gc) ==
    /\ req[r].pc = "TOOL_REQUESTED"
    /\ LET part == req[r].response[1]
       IN  IF "sql_query" \notin DOMAIN part.args
           THEN /\ req' = [req EXCEPT ![r].pc = "FAILED",
                                      ![r].error = KeyErrorMsg,
                                      ![r].reply = Reply(500, KeyErrorMsg, None)]
                /\ UNCHANGED store
           ELSE LET query == part.args["sql_query"]
                    out == execute_sql(store, query)
                IN  /\ store' = out.db
                    /\ req' = [req EXCEPT ![r].pc = "TOOL_RESULT",
                                          ![r].query = query,
                                          ![r].result = out.result,
                                          ![r].opened = out.opened,
                                          ![r].connOpen = out.opened /\ ~out.closed /\ ~gc,
                                          ![r].execCalls = @ + 1]
    /\ UNCHANGED <<workers, acked>>

\* the loop body up to execute_sql's return.  gc: a Connection that lost its
\* last reference without close() is finalized at once (reference counting)
\* or stays open until a later collection
executeTool(r, gc) ==
    /\ req[r].pc = "TOOL_REQUESTED"
    /\ LET part == req[r].response[1]
       IN  IF "sql_query" \notin DOMAIN part.args
           THEN /\ ~gc
                /\ req' = [req EXCEPT ![r].pc = "FAILED",
                                      ![r].error = KeyErrorMsg,
                                      ![r].reply = Reply(500, RetrievalFailed, None)]
                /\ UNCHANGED store
           ELSE LET query == part.args["sql_query"]
                    out == execute_sql(store, query)
                IN  /\ gc => (out.opened /\ ~out.closed)
                    /\ store' = out.db
                    /\ req' = [req EXCEPT ![r].pc = IF out.raised THEN "FAILED" ELSE "TOOL_RESULT",
                                          ![r].query = query,
                                          ![r].result = out.result,
                                          ![r].opened = out.opened,
                                          ![r].connOpen = out.opened /\ ~out.closed /\ ~gc,
                                          ![r].raised = out.raised,
                                          ![r].error = IF out.raised THEN out.result ELSE @,
                                          ![r].execCalls = @ + 1,
                                          ![r].reply = IF out.raised
                                                       THEN Reply(500, RetrievalFailed, None)
                                                       ELSE @]
    /\ UNCHANGED <<workers, acked>>

\* a loop that gives up on an executor error instead of reporting it
sendToolResponse_StopOnError(r) ==
    /\ req[r].pc = "TOOL_RESULT"
    /\ IF StartsWith(req[r].result, SqlErrorPrefix)
       THEN req' = [req EXCEPT ![r].pc = "FAILED",
                               ![r].reply = Reply(500, RetrievalFailed, None)]
       ELSE req' = [req EXCEPT ![r].pc = "AWAITING_RESPONSE",
                               ![r].chat = Append(@, ToolTurn(ToolName, req[r].result)),
                               ![r].engineCalls = @ + 1]
    /\ UNCHANGED <<store, workers, acked>>

\* chat.send_message(Part(function_response=...)) is issued
sendToolResponse(r) ==
    /\ req[r].pc = "TOOL_RESULT"
    /\ req' = [req EXCEPT ![r].pc = "AWAITING_RESPONSE",
                          ![r].chat = Append(@, ToolTurn(ToolName, req[r].result)),
                          ![r].engineCalls = @ + 1]
    /\ UNCHANGED <<store, workers, acked>>

\* the response has been sent; the worker thread takes the next request
finish(r) ==
    /\ req[r].pc \in {"DONE", "FAILED", "REJECTED"}
    /\ req' = [req EXCEPT ![r] = Idle]
    /\ UNCHANGED <<store, workers, acked>>

\* the inputs the deployment is explored with
TextsOffered == IF workers = 1 THEN Texts ELSE ConcTexts
QuestionsOffered == IF workers = 1 THEN Questions ELSE ConcQuestions
EngineTurnsOffered == IF workers = 1 THEN EngineTurns ELSE ConcEngineTurns
ClassifierRepliesOffered == IF workers = 1 THEN ClassifierReplies ELSE ConcClassifierReplies

Next ==
    \/ \E r \in Reqs, e \in {"health", "remember", "remind"}, h \in Headers : Reject(r, e, h)
    \/ \E r \in Reqs, h \in Headers : health(r, h)
    \/ \E r \in Reqs, h \in Headers, t \in TextsOffered : remember(r, h, t)
    \/ \E r \in Reqs, c \in ClassifierRepliesOffered, now \in Clock : rememberSave(r, c, now)
    \/ \E r \in Reqs, h \in Headers, q \in QuestionsOffered : remind(r, h, q)
    \/ \E r \in Reqs, t \in EngineTurnsOffered : engineReturns(r, t)
    \/ \E r \in Reqs, gc \in BOOLEAN : executeTool(r, gc)
    \/ \E r \in Reqs : sendToolResponse(r)
    \/ \E r \in Reqs : finish(r)

\* one request at a time
Spec == Init /\ [][Next]_vars

\* two worker threads: two requests in flight, their steps interleaved
InitConc ==
    /\ store = <<>>
    /\ workers = 2
    /\ req = [r \in Reqs |-> Idle]
    /\ acked = {}

SpecConc == InitConc /\ [][Next]_vars

\* ================================================================= claims
Remind(r) == req[r].endpoint = "remind"
Remember(r) == req[r].endpoint = "remember"

\* s holds the keyword kw at some position, each letter in either case
HoldsAnyCase(s, kw) ==
    \E i \in 0..(Len(s) - Len(kw)) :
        \A j \in 1..Len(kw) : s[i + j] \in {kw[j], LowerChar(kw[j])}

MentionsMutation(s) ==
    \E kw \in {KwDELETE, KwDROP, KwUPDATE, KwINSERT} : HoldsAnyCase(s, kw)

\* C1: whenever execute_sql has been called with a query string that holds
\* DELETE, DROP, UPDATE or INSERT anywhere, in any letter case, it returned
\* the fixed read-only error and opened no connection to the Note Store.
C1_KeywordRefused ==
    \A r \in Reqs :
        (Remind(r) /\ req[r].execCalls > 0 /\ IsStr(req[r].query)
                   /\ MentionsMutation(req[r].query))
        => (req[r].result = ReadOnlyError /\ ~req[r].opened /\ ~req[r].raised)

\* C1 witness: a mixed-case DeLeTe and a keyword inside a LIKE literal have
\* both been answered
C1_Witness ==
    \E r \in Reqs :
        /\ req[r].pc = "TOOL_RESULT"
        /\ req[r].query \in {QDelete, QLikeUpdate}
        /\ req[r].result = ReadOnlyError

\* the slot r takes a step
Steps(r) == req'[r] # req[r]

\* C2: no step of a remind run changes the Note Store, whatever query strings
\* the engine emits; the table at the end of the run is the table at its start.
C2_RemindLeavesStore ==
    [][\A r \in Reqs : (Remind(r) /\ Steps(r)) => store' = store]_vars

HasCall(parts) == \E i \in DOMAIN parts : parts[i].function_call
TextOnly(parts) == parts # <<>> /\ ~HasCall(parts)

\* C3: a remind run that has answered did so on a text-only turn, its Nth,
\* after N engine calls and N-1 execute_sql calls, and the answer is that
\* turn's text.
C3_LoopCounts ==
    \A r \in Reqs :
        (Remind(r) /\ req[r].pc = "DONE")
        => /\ TextOnly(req[r].response)
           /\ req[r].execCalls = req[r].engineCalls - 1
           /\ req[r].reply.status = 200
           /\ req[r].reply.body = JoinText(req[r].response)

\* C4: after an engine turn the loop is in TOOL_REQUESTED only if the turn
\* holds a tool invocation and in DONE only if it holds none, whatever the
\* number and order of its parts; in DONE the answer is the turn's text.
C4_Branch ==
    \A r \in Reqs :
        Remind(r) =>
           /\ req[r].pc = "TOOL_REQUESTED" => HasCall(req[r].response)
           /\ req[r].pc = "DONE" => /\ ~HasCall(req[r].response)
                                    /\ req[r].reply.body = JoinText(req[r].response)

\* the query is one execute_sql cannot answer with rows or the sentinel
FailingQuery(q) ==
    \/ ~IsStr(q)
    \/ MentionsMutation(q)
    \/ StatementKind(q) = "error"

IsErrorString(s) == s = ReadOnlyError \/ StartsWith(s, SqlErrorPrefix)

\* C5: no exception leaves execute_sql: every call returned a non-empty text,
\* and for a refused, rejected or malformed query that text is an error string.
C5_NeverRaises ==
    \A r \in Reqs :
        (Remind(r) /\ req[r].execCalls > 0)
        => /\ ~req[r].raised
           /\ IsStr(req[r].result) /\ req[r].result # <<>>
           /\ FailingQuery(req[r].query) => IsErrorString(req[r].result)
           /\ ~FailingQuery(req[r].query) => ~IsErrorString(req[r].result)

\* C5 witness: the argument 123, which has no upper(), came back as text
C5_Witness ==
    \E r \in Reqs :
        /\ req[r].pc = "TOOL_RESULT"
        /\ req[r].query = Int123
        /\ req[r].result = SqlErrorPrefix \o NoUpperMsg

\* C6: a tool invocation with its argument always yields a Tool Result, and
\* every Tool Result, error strings included, is appended to the chat as a
\* tool-response turn together with one more engine call; neither step ends
\* the run.
C6_ResultFedBack ==
    [][\A r \in Reqs :
         /\ (req[r].pc = "TOOL_REQUESTED" /\ Steps(r)
               /\ "sql_query" \in DOMAIN req[r].response[1].args)
             => req'[r].pc = "TOOL_RESULT"
         /\ (req[r].pc = "TOOL_RESULT" /\ Steps(r))
             => /\ req'[r].pc = "AWAITING_RESPONSE"
                /\ req'[r].engineCalls = req[r].engineCalls + 1
                /\ Len(req'[r].chat) = Len(req[r].chat) + 1
                /\ SubSeq(req'[r].chat, 1, Len(req[r].chat)) = req[r].chat
                /\ LET turn == req'[r].chat[Len(req'[r].chat)]
                   IN  /\ turn.role = "tool"
                       /\ turn.parts[1].response = req[r].result
      ]_vars

\* C6 witness: the datastore's syntax error is the last turn of the chat and
\* the engine has been called again
C6_Witness ==
    \E r \in Reqs :
        /\ req[r].pc = "AWAITING_RESPONSE"
        /\ req[r].engineCalls = 2
        /\ req[r].chat[Len(req[r].chat)].role = "tool"
        /\ req[r].chat[Len(req[r].chat)].parts[1].response = SqlErrorPrefix \o SyntaxErrorMsg

\* the classifier call raised, or its output is no JSON object
ClassifierFailed(resp) == ~resp.ok \/ resp.doc.type \in {"invalid", "array"}

\* C7: a remember request whose classifier call or output parsing fails ends
\* with an error response after that one call, leaves the Note Store as it
\* was, and does nothing afterwards but end.
C7_ClassifierFailure ==
    [][\A r \in Reqs :
         /\ (req[r].pc = "CLASSIFYING" /\ Steps(r) /\ ClassifierFailed(req'[r].response))
             => /\ req'[r].pc = "FAILED"
                /\ req'[r].reply.status = 500
                /\ req'[r].engineCalls = 1
                /\ store' = store
         /\ (Remember(r) /\ req[r].pc = "FAILED" /\ Steps(r))
             => (req'[r] = Idle /\ store' = store)
      ]_vars

\* C7 witness: a remember request has failed on output that is not JSON
C7_Witness ==
    \E r \in Reqs :
        /\ Remember(r) /\ req[r].pc = "FAILED"
        /\ req[r].response.ok /\ req[r].response.doc.type = "invalid"
        /\ req[r].reply.status = 500

\* C8: every Note in the Note Store has non-empty text.
C8_NonEmptyText ==
    \A i \in DOMAIN store : store[i].text # <<>>

\* the classifier's output has no tags key, or an empty or null tags value
YieldsNothing(doc) ==
    /\ doc.type = "object"
    /\ ("tags" \notin DOMAIN doc.members \/ doc.members["tags"] \in {<<>>, None})

\* C9: a remember request that succeeded on a classification yielding
\* nothing stored its Note with tags "general" and reports tags "general".
C9_DefaultGeneral ==
    \A r \in Reqs :
        (Remember(r) /\ req[r].pc = "DONE" /\ YieldsNothing(req[r].response.doc))
        => /\ req[r].reply.tags = General
           /\ store[Len(store)].tags = General

\* C10: the Note Store is append-only: every step leaves each stored Note in
\* place with the same text, tags and timestamp.
C10_AppendOnly ==
    [][\A i \in DOMAIN store : i \in DOMAIN store' /\ store'[i] = store[i]]_vars

C12_Unauthorized ==
    [][\A r \in Reqs :
         (Steps(r) /\ req'[r].pc = "REJECTED")
         => /\ req'[r].reply.status = 401
            /\ req'[r].engineCalls = 0
            /\ req'[r].execCalls = 0
            /\ store' = store
      ]_vars

\* the function_call parts of a turn
CallsOf(turn) == Cardinality({ i \in DOMAIN turn.parts : turn.parts[i].function_call })

\* the tool invocations a chat holds that no tool-response turn has answered
RECURSIVE OpenInvocations(_)
OpenInvocations(chat) ==
    IF chat = <<>> THEN 0
    ELSE LET turn == chat[Len(chat)]
             rest == OpenInvocations(SubSeq(chat, 1, Len(chat) - 1))
         IN  IF turn.role = "model" THEN rest + CallsOf(turn)
             ELSE IF turn.role = "tool" THEN rest - 1
             ELSE rest

\* C13: every Tool Invocation the engine emits, in a turn with any number of
\* parts, has been executed and answered when the engine is called again: no
\* invocation is open while the run awaits the engine.
C13_AllAnswered ==
    \A r \in Reqs :
        (Remind(r) /\ req[r].pc = "AWAITING_RESPONSE")
        => OpenInvocations(req[r].chat) = 0

\* C14: every tool-response turn of a chat carries the capability name of the
\* Tool Invocation it answers, the one in the model turn before it.
C14_SameName ==
    \A r \in Reqs :
        \A i \in DOMAIN req[r].chat :
            req[r].chat[i].role = "tool"
            => req[r].chat[i].parts[1].name = req[r].chat[i - 1].parts[1].name

\* the turns of a chat with the given role
TurnsOf(chat, role) == { i \in DOMAIN chat : chat[i].role = role }

\* the chat of run r holds the question of r first and then only what r has
\* received from the engine and from execute_sql
OwnChat(r) ==
    LET chat == req[r].chat
        awaiting == req[r].pc = "AWAITING_RESPONSE"
        models == TurnsOf(chat, "model")
        tools == TurnsOf(chat, "tool")
    IN  /\ chat # <<>> /\ chat[1] = UserTurn(req[r].body)
        /\ TurnsOf(chat, "user") = {1}
        /\ Cardinality(tools) = req[r].execCalls - (IF req[r].pc = "TOOL_RESULT" THEN 1 ELSE 0)
        /\ req[r].pc \in {"TOOL_REQUESTED", "TOOL_RESULT", "DONE"}
           => /\ Cardinality(models) = req[r].engineCalls
              /\ chat[CHOOSE i \in models : \A j \in models : j <= i].parts = req[r].response
        /\ awaiting => Cardinality(models) = req[r].engineCalls - 1
        /\ (awaiting /\ tools # {})
           => chat[Len(chat)] = ToolTurn(ToolName, req[r].result)
        /\ req[r].pc = "DONE" => req[r].reply.body = ResponseText(chat[Len(chat)].parts)

\* C15: with two remind runs in flight in any interleaving, each run's
\* Conversation State is its own: it starts with the run's own question, holds
\* only the run's own engine turns and Tool Results, never the question of the
\* other run, and the run's answer is the text of its own last turn.
C15_OwnConversation ==
    \A r \in Reqs :
        (Remind(r) /\ req[r].pc # "REJECTED") =>
            /\ OwnChat(r)
            /\ \A s \in Reqs \ {r} :
                  (Remind(s) /\ req[s].body # req[r].body)
                  => \A i \in DOMAIN req[r].chat : req[r].chat[i] # UserTurn(req[s].body)

\* C15 witness: two runs with different questions are in flight and each has
\* a Tool Result in its chat
C15_Witness ==
    \E r, s \in Reqs :
        /\ r # s /\ Remind(r) /\ Remind(s)
        /\ req[r].body # req[s].body
        /\ TurnsOf(req[r].chat, "tool") # {} /\ TurnsOf(req[s].chat, "tool") # {}
        /\ req[r].result # req[s].result

\* q is a read-only full-text query: SELECT ... WHERE memory MATCH 'term'
FullTextQuery(q) ==
    /\ IsStr(q)
    /\ StartsWith(Upper(q), KwSELECT)
    /\ Contains(Upper(q), KwMATCH)

\* the members "text": T, "tags": G of a serialized row
RowFragment(text, tags) ==
    <<"\"">> \o Str("text") \o <<"\"", ":", " ">> \o JsonValue(text) \o <<",", " ">>
    \o <<"\"">> \o Str("tags") \o <<"\"", ":", " ">> \o JsonValue(tags)

\* C16: once a remember request for text T has returned "saved" with tags G,
\* every later execute_sql call with a read-only full-text query whose term is
\* a word of T returns a row list holding a row with text T and tags G.
C16_AppendThenQuery ==
    \A r \in Reqs :
        (Remind(r) /\ req[r].pc = "TOOL_RESULT" /\ FullTextQuery(req[r].query))
        => \A a \in acked :
              Lower(Quoted(req[r].query)) \in Tokens(a.text)
              => Contains(req[r].result, RowFragment(a.text, a.tags))

\* q is a query the guard lets through and the datastore runs as a SELECT
ValidReadOnly(q) == IsStr(q) /\ ~MentionsMutation(q) /\ StatementKind(q) = "select"

\* C17: a valid read-only query that yields 0 rows is answered with exactly
\* the no-results sentinel, and the sentinel is the answer of no query that
\* yields rows and of no call that ends in an error string.
C17_Sentinel ==
    \A r \in Reqs :
        (Remind(r) /\ req[r].pc = "TOOL_RESULT")
        => LET q == req[r].query
               rows == SqliteExecute(store, q).rows
           IN  /\ (ValidReadOnly(q) /\ rows = <<>>) => req[r].result = NoResults
               /\ (ValidReadOnly(q) /\ rows # <<>>) => req[r].result # NoResults
               /\ FailingQuery(q) => req[r].result # NoResults
               /\ IsErrorString(req[r].result) => req[r].result # NoResults

\* C17 witness: a full-text query found nothing in a table that holds a Note
C17_Witness ==
    \E r \in Reqs :
        /\ req[r].pc = "TOOL_RESULT"
        /\ req[r].query = QMatch
        /\ store # <<>>
        /\ req[r].result = NoResults

\* the column names the store is said to have
ClaimedColumns == <<"text", "tags", "timestamp">>

RECURSIVE MembersOver(_, _, _)
MembersOver(cols, row, i) ==
    IF i > Len(cols) THEN <<>>
    ELSE (IF i > 1 THEN <<",", " ">> ELSE <<>>)
         \o <<"\"">> \o Str(cols[i]) \o <<"\"", ":", " ">> \o JsonValue(row[cols[i]])
         \o MembersOver(cols, row, i + 1)

RECURSIVE ItemsOver(_, _, _)
ItemsOver(cols, rows, i) ==
    IF i > Len(rows) THEN <<>>
    ELSE (IF i > 1 THEN <<",", " ">> ELSE <<>>)
         \o <<"{">> \o MembersOver(cols, rows[i], 1) \o <<"}">>
         \o ItemsOver(cols, rows, i + 1)

\* C18: the answer to a valid read-only query that yields rows is the list of
\* one mapping per row, in row order, each with exactly the keys text, tags
\* and timestamp.
C18_RowMappings ==
    \A r \in Reqs :
        (Remind(r) /\ req[r].pc = "TOOL_RESULT" /\ ValidReadOnly(req[r].query))
        => LET rows == SqliteExecute(store, req[r].query).rows
           IN  rows # <<>>
               => req[r].result = <<"[">> \o ItemsOver(ClaimedColumns, rows, 1) \o <<"]">>

\* the engine turns of a chat that hold a tool invocation, and those that hold none
InvocationTurns(chat) == { i \in TurnsOf(chat, "model") : CallsOf(chat[i]) > 0 }
PlainTurns(chat) == { i \in TurnsOf(chat, "model") : CallsOf(chat[i]) = 0 }

\* C19: a remind run is in DONE only once the engine has returned a turn
\* without a tool invocation, and by then it has made one execute_sql call for
\* each tool-invocation turn the engine emitted, none cut off.
C19_DoneOnPlainTurn ==
    \A r \in Reqs :
        (Remind(r) /\ req[r].pc = "DONE")
        => /\ PlainTurns(req[r].chat) # {}
           /\ req[r].execCalls = Cardinality(InvocationTurns(req[r].chat))

\* C20: no connection that an execute_sql call of a remind run has opened is
\* still open once the call has returned, whatever its outcome.
C20_ConnectionsClosed ==
    \A r \in Reqs :
        (Remind(r) /\ req[r].execCalls > 0) => ~req[r].connOpen

====
